---- MODULE Spec2Model ----
(***************************************************************************)
(* Model of packages/node/src/serve-static.ts: the static handler returned *)
(* by createStaticHandler, its trailing-slash switch, the options handed   *)
(* to the file-serving collaborator (send) and the three event listeners   *)
(* registered on the stream.  Strings are TLA+ strings; a character of a   *)
(* string s is SubSeq(s, i, i).                                            *)
(***************************************************************************)
EXTENDS Integers, Sequences, FiniteSets, TLC

VARIABLES options, fs, walk, req, pc, res, stream, target, forwardError, ssrCalls,
          sendCalls, probeCalls, events

vars == <<options, fs, walk, req, pc, res, stream, target, forwardError, ssrCalls,
          sendCalls, probeCalls, events>>

(***************************************************************************)
(* Bounds                                                                  *)
(***************************************************************************)
\* longest URL of the exhaustively enumerated part of the input set
MaxLen == 2
\* number of collaborator events delivered to one request
MaxEvents == 3
\* number of request slots
MaxReqs == 2

Reqs == 1..MaxReqs

\* characters the enumerated URLs are built from
Alphabet == {"/", ".", "a", "A", "?"}

\* value of an absent url, query, header or option
Undefined == "<undefined>"

(***************************************************************************)
(* String helpers (String.prototype methods used by the handler)           *)
(***************************************************************************)
CharAt(s, i) == SubSeq(s, i, i)

startsWith(s, p) == Len(s) >= Len(p) /\ SubSeq(s, 1, Len(p)) = p

endsWith(s, p) == Len(s) >= Len(p) /\ SubSeq(s, Len(s) - Len(p) + 1, Len(s)) = p

\* s.slice(0, -1)
sliceLast(s) == IF Len(s) = 0 THEN "" ELSE SubSeq(s, 1, Len(s) - 1)

\* s.slice(n)
sliceFrom(s, n) == IF n >= Len(s) THEN "" ELSE SubSeq(s, n + 1, Len(s))

\* positions of the character c in s
Positions(s, c) == {i \in 1..Len(s) : CharAt(s, i) = c}

Min(S) == CHOOSE m \in S : \A n \in S : m <= n

\* s.split(sep) for a one-character separator, as a sequence of strings
RECURSIVE split(_, _)
split(s, sep) ==
    IF Positions(s, sep) = {} THEN <<s>>
    ELSE LET i == Min(Positions(s, sep))
         IN <<SubSeq(s, 1, i - 1)>> \o split(sliceFrom(s, i), sep)

\* const [urlPath, urlQuery] = req.url.split('?')
UrlPath(url) == split(url, "?")[1]

UrlQuery(url) ==
    LET parts == split(url, "?")
    IN IF Len(parts) >= 2 THEN parts[2] ELSE Undefined

\* JavaScript truthiness of a string-or-undefined value
Truthy(s) == s # Undefined /\ s # ""

LowerCase == {"a", "b", "c", "d", "e", "f", "g", "h", "i", "j", "k", "l", "m",
              "n", "o", "p", "q", "r", "s", "t", "u", "v", "w", "x", "y", "z"}

UpperCase == {"A", "B", "C", "D", "E", "F", "G", "H", "I", "J", "K", "L", "M",
              "N", "O", "P", "Q", "R", "S", "T", "U", "V", "W", "X", "Y", "Z"}

\* what [a-z] matches under the i flag
RegexLetter == LowerCase \cup UpperCase

\* isSubresourceRegex.test(s), /.+\.[a-z]+$/i
isSubresourceRegex(s) ==
    \E i \in 2..(Len(s) - 1) :
        /\ CharAt(s, i) = "."
        /\ \A j \in (i + 1)..Len(s) : CharAt(s, j) \in RegexLetter

\* isActionRegex.test(s), /^\/?_actions\/.+/
isActionRegex(s) ==
    \/ startsWith(s, "_actions/") /\ Len(s) > Len("_actions/")
    \/ startsWith(s, "/_actions/") /\ Len(s) > Len("/_actions/")

\* the pathname used as app.removeBase returned it
prependForwardSlashOmitted(pth) == pth

prependForwardSlash(pth) == IF startsWith(pth, "/") THEN pth ELSE "/" \o pth

(***************************************************************************)
(* Host application capability and the file system                         *)
(***************************************************************************)
\* app.removeBase(pathname) for the configured base
removeBase(base, pathname) ==
    IF startsWith(pathname, base)
    THEN sliceFrom(pathname, Len(IF endsWith(base, "/") THEN sliceLast(base) ELSE base) + 1)
    ELSE pathname

\* the resolved client directory, as path segments below the file system root
Client == <<"dist", "client">>

\* path.join(client, rel): segments of the normalized absolute path
RECURSIVE Resolve(_, _)
Resolve(acc, segs) ==
    IF segs = <<>> THEN acc
    ELSE LET h == Head(segs)
         IN IF h = "" \/ h = "." THEN Resolve(acc, Tail(segs))
            ELSE IF h = ".."
                 THEN Resolve(IF acc = <<>> THEN acc ELSE SubSeq(acc, 1, Len(acc) - 1),
                              Tail(segs))
                 ELSE Resolve(Append(acc, h), Tail(segs))

pathJoin(client, rel) == Resolve(client, split(rel, "/"))

\* fs.lstatSync(filePath): "dir", "file", or "throw" when nothing is there
lstatSync(filesystem, filePath) ==
    IF filePath \in filesystem.dirs THEN "dir"
    ELSE IF filePath \in filesystem.files THEN "file"
    ELSE "throw"

\* a probe whose catch block counts a failed lstat as a directory
probeThrowIsDirectory(filesystem, filePath) == lstatSync(filesystem, filePath) # "file"

\* try { isDirectory = fs.lstatSync(filePath).isDirectory() } catch {}
probeIsDirectory(filesystem, filePath) == lstatSync(filesystem, filePath) = "dir"

Ancestors == {SubSeq(Client, 1, n) : n \in 0..Len(Client)}

\* the file systems the handler is run against
Filesystems ==
    { [dirs  |-> Ancestors \cup {Client \o <<"a">>, Client \o <<".well-known">>,
                                 Client \o <<"_astro">>, Client \o <<"a", "a">>},
       files |-> {Client \o <<"A">>, Client \o <<"a", "a.A">>}],
      [dirs  |-> Ancestors \cup {<<"dist", "a">>},
       files |-> {Client \o <<"a">>}] }

(***************************************************************************)
(* Inputs                                                                  *)
(***************************************************************************)
RECURSIVE StringsUpTo(_)
StringsUpTo(n) ==
    IF n = 0 THEN {""}
    ELSE LET S == StringsUpTo(n - 1)
         IN S \cup {s \o c : s \in {t \in S : Len(t) = n - 1}, c \in Alphabet}

\* longer URLs the enumeration does not reach
SampleUrls ==
    { "/a/", "///", "/.A", "/.a", "/a?", "a.A", "/A/", "/a//", "/a/?a=1", "/a/?a=1?b=2", "/a?a=1?b=2", "/a/a/", "/a/a.A", "/a/a.a",
      "/a/../a/", "/.well-known/a", "/.well-known", "/.well-known/../.a",
      "/.git/a", "/_astro/a.js", "/_actions/a", "/a/_actions/a", "/_actions/",
      "/a/?", "/a/a", "/a.A/", "/aa", "/a.", "//a", "/..", "/./" }

Urls == StringsUpTo(MaxLen) \cup SampleUrls \cup {Undefined}

Methods == {"GET", "POST"}

TrailingSlashOptions == {Undefined, "never", "ignore", "always"}

Bases == {"/", "/a"}

AssetsOptions == {"_astro", "a"}

(***************************************************************************)
(* The trailing-slash switch                                               *)
(***************************************************************************)
\* const { trailingSlash = 'ignore' } = options
trailingSlashOf(opts) ==
    IF opts.trailingSlash = Undefined THEN "ignore" ELSE opts.trailingSlash

\* (urlQuery ? '?' + urlQuery : '')
querySuffix(urlQuery) == IF Truthy(urlQuery) THEN "?" \o urlQuery ELSE ""

Redirect(location) == [kind |-> "Redirect", value |-> location]

Serve(pathname) == [kind |-> "Serve", value |-> pathname]

\* case 'ignore' without the index.html rewrite of directories
caseIgnoreNoIndex(urlPath, isDirectory) == Serve(urlPath)

\* case 'ignore'
caseIgnore(urlPath, isDirectory) ==
    IF isDirectory /\ ~endsWith(urlPath, "/")
    THEN Serve(urlPath \o "/index.html")
    ELSE Serve(urlPath)

\* case 'never' without the urlPath != '/' test
caseNeverNoRootTest(urlPath, urlQuery, isDirectory) ==
    IF isDirectory /\ endsWith(urlPath, "/")
    THEN Redirect(sliceLast(urlPath) \o querySuffix(urlQuery))
    ELSE caseIgnore(urlPath, isDirectory)

\* case 'never' ending in a break instead of falling through
caseNeverNoFallthrough(urlPath, urlQuery, isDirectory) ==
    IF isDirectory /\ urlPath # "/" /\ endsWith(urlPath, "/")
    THEN Redirect(sliceLast(urlPath) \o querySuffix(urlQuery))
    ELSE Serve(urlPath)

\* case 'never', falling through to case 'ignore' when it does not return
caseNever(urlPath, urlQuery, isDirectory) ==
    IF isDirectory /\ urlPath # "/" /\ endsWith(urlPath, "/")
    THEN Redirect(sliceLast(urlPath) \o querySuffix(urlQuery))
    ELSE caseIgnore(urlPath, isDirectory)

\* isActionRegex.test(app.removeBase(urlPath)) && req.method === 'POST'
isActionRequest(base, urlPath, method) ==
    isActionRegex(removeBase(base, urlPath)) /\ method = "POST"

\* case 'always'
caseAlways(urlPath, urlQuery, actionRequest) ==
    IF ~endsWith(urlPath, "/") /\ ~isSubresourceRegex(urlPath) /\ ~actionRequest
    THEN Redirect(urlPath \o "/" \o querySuffix(urlQuery))
    ELSE Serve(urlPath)

\* switch (trailingSlash)
trailingSlashSwitch(opts, url, method, isDirectory) ==
    LET urlPath == UrlPath(url)
        urlQuery == UrlQuery(url)
        policy == trailingSlashOf(opts)
    IN CASE policy = "never" -> caseNever(urlPath, urlQuery, isDirectory)
         [] policy = "ignore" -> caseIgnore(urlPath, isDirectory)
         [] policy = "always" ->
                caseAlways(urlPath, urlQuery, isActionRequest(opts.base, urlPath, method))

\* path.join(client, app.removeBase(urlPath)) and the lstatSync probe on it
isDirectoryOf(opts, filesystem, url) ==
    probeIsDirectory(filesystem, pathJoin(Client, removeBase(opts.base, UrlPath(url))))

\* the routing decision of a request with a url
decisionOf(opts, filesystem, url, method) ==
    trailingSlashSwitch(opts, url, method, isDirectoryOf(opts, filesystem, url))

\* prependForwardSlash(app.removeBase(pathname))
resolvedPathname(opts, pathname) == prependForwardSlash(removeBase(opts.base, pathname))

\* dotfiles decided on the prefix without its closing slash
dotfilesOfOpenPrefix(pathname) ==
    IF startsWith(pathname, "/.well-known") THEN "allow" ELSE "deny"

\* dotfiles: pathname.startsWith('/.well-known/') ? 'allow' : 'deny'
dotfilesOf(pathname) == IF startsWith(pathname, "/.well-known/") THEN "allow" ELSE "deny"

\* send(req, pathname, { root: client, dotfiles })
send(pathname) == [pathname |-> pathname, root |-> Client, dotfiles |-> dotfilesOf(pathname)]

(***************************************************************************)
(* resolveClientDir: the upward walk to the server entry folder            *)
(***************************************************************************)
Max(S) == CHOOSE m \in S : \A n \in S : m >= n

\* path.dirname(p) (posix)
dirname(p) ==
    LET ends == {i \in 2..Len(p) :
                    /\ CharAt(p, i) = "/"
                    /\ \E j \in (i + 1)..Len(p) : CharAt(p, j) # "/"}
        hasRoot == startsWith(p, "/")
    IN IF Len(p) = 0 THEN "."
       ELSE IF ends = {} THEN (IF hasRoot THEN "/" ELSE ".")
       ELSE IF hasRoot /\ Max(ends) = 2 THEN "//"
       ELSE SubSeq(p, 1, Max(ends) - 1)

\* path.basename(p) (posix)
basename(p) ==
    LET nonSlash == {i \in 1..Len(p) : CharAt(p, i) # "/"}
    IN IF nonSlash = {} THEN ""
       ELSE LET e == Max(nonSlash)
                slashes == {i \in 1..e : CharAt(p, i) = "/"}
            IN SubSeq(p, IF slashes = {} THEN 1 ELSE Max(slashes) + 1, e)

\* import.meta.url of the running module
ModuleUrls ==
    { "file:///srv/dist/server/entry.mjs",
      "file:///srv/dist/server/chunks/x.mjs",
      "file:///srv/dist/server/chunks/pages/x.mjs",
      "file:///srv/dist/server/myserver/x.mjs",
      "file:///srv/myserver/dist/server/x.mjs",
      "file:///srv/server/dist/server/x.mjs",
      "file:///srv/dist/out/chunks/x.mjs",
      "file:///srv/dist/x.mjs",
      "file:///x.mjs",
      "file:///srv/dist/server/chunks/pages/blog/x.mjs",
      "file:///srv/app/dist/out/chunks/x.mjs",
      "/srv/dist/server/x.mjs" }

\* options.server
ServerUrls ==
    { "file:///srv/dist/server/", "file:///srv/dist/server", "file:///srv/dist/out/",
      "file:///srv/dist/build/" }

\* the walk before its first test: serverFolder and serverEntryFolderURL
walkStart(server, moduleUrl) ==
    [pc |-> "walking", serverFolder |-> basename(server),
     serverEntryFolderURL |-> dirname(moduleUrl)]

\* the walk of the handler under test, finished at construction
walkDone ==
    [pc |-> "done", serverFolder |-> "server",
     serverEntryFolderURL |-> "file:///srv/dist/server"]

\* while (!serverEntryFolderURL.endsWith(serverFolder))
walkTest(w) == endsWith(w.serverEntryFolderURL, w.serverFolder)

(***************************************************************************)
(* Response and request state                                              *)
(***************************************************************************)
NoRequest == [url |-> Undefined, method |-> "GET"]

FreshResponse == [statusCode |-> 0, location |-> Undefined, cacheControl |-> Undefined,
                  body |-> Undefined, ended |-> FALSE]

NoStream == [pathname |-> Undefined, root |-> <<>>, dotfiles |-> Undefined]

Init ==
    /\ options \in [trailingSlash : TrailingSlashOptions, assets : AssetsOptions,
                    base : Bases]
    /\ fs \in Filesystems
    /\ walk = walkDone
    /\ req = [r \in Reqs |-> NoRequest]
    /\ pc = [r \in Reqs |-> "idle"]
    /\ res = [r \in Reqs |-> FreshResponse]
    /\ stream = [r \in Reqs |-> NoStream]
    /\ target = [r \in Reqs |-> Undefined]
    /\ forwardError = [r \in Reqs |-> FALSE]
    /\ ssrCalls = [r \in Reqs |-> 0]
    /\ sendCalls = [r \in Reqs |-> 0]
    /\ probeCalls = [r \in Reqs |-> 0]
    /\ events = [r \in Reqs |-> <<>>]

(***************************************************************************)
(* The handler: (req, res, ssr) => { ... }                                 *)
(***************************************************************************)
\* a no-url branch that also answers 404 itself
HandleNoUrlWritesStatus(r, url, method) ==
    /\ pc[r] = "idle"
    /\ ~Truthy(url)
    /\ req' = [req EXCEPT ![r] = [url |-> url, method |-> method]]
    /\ ssrCalls' = [ssrCalls EXCEPT ![r] = @ + 1]
    /\ res' = [res EXCEPT ![r] = [@ EXCEPT !.statusCode = 404, !.ended = TRUE]]
    /\ pc' = [pc EXCEPT ![r] = "returned"]
    /\ UNCHANGED <<options, fs, walk, stream, target, forwardError, sendCalls,
                   probeCalls, events>>

\* else branch of if (req.url): ssr()
HandleNoUrl(r, url, method) ==
    /\ pc[r] = "idle"
    /\ ~Truthy(url)
    /\ req' = [req EXCEPT ![r] = [url |-> url, method |-> method]]
    /\ ssrCalls' = [ssrCalls EXCEPT ![r] = @ + 1]
    /\ pc' = [pc EXCEPT ![r] = "returned"]
    /\ UNCHANGED <<options, fs, walk, res, stream, target, forwardError, sendCalls,
                   probeCalls, events>>

\* the redirect branch without its return: the request goes on to send()
HandleRedirectNoReturn(r, url, method) ==
    /\ pc[r] = "idle"
    /\ Truthy(url)
    /\ LET d == decisionOf(options, fs, url, method)
       IN /\ d.kind = "Redirect"
          /\ res' = [res EXCEPT ![r] = [@ EXCEPT !.statusCode = 301,
                                                 !.location = d.value,
                                                 !.ended = TRUE]]
          /\ target' = [target EXCEPT ![r] = d.value]
          /\ stream' = [stream EXCEPT ![r] = send(resolvedPathname(options, d.value))]
    /\ req' = [req EXCEPT ![r] = [url |-> url, method |-> method]]
    /\ sendCalls' = [sendCalls EXCEPT ![r] = @ + 1]
    /\ forwardError' = [forwardError EXCEPT ![r] = FALSE]
    /\ pc' = [pc EXCEPT ![r] = "piped"]
    /\ probeCalls' = [probeCalls EXCEPT ![r] = @ + 1]
    /\ UNCHANGED <<options, fs, walk, ssrCalls, events>>

\* the switch returns res.end() after a 301
HandleRedirect(r, url, method) ==
    /\ pc[r] = "idle"
    /\ Truthy(url)
    /\ LET d == decisionOf(options, fs, url, method)
       IN /\ d.kind = "Redirect"
          /\ res' = [res EXCEPT ![r] = [@ EXCEPT !.statusCode = 301,
                                                 !.location = d.value,
                                                 !.ended = TRUE]]
    /\ req' = [req EXCEPT ![r] = [url |-> url, method |-> method]]
    /\ pc' = [pc EXCEPT ![r] = "returned"]
    /\ probeCalls' = [probeCalls EXCEPT ![r] = @ + 1]
    /\ UNCHANGED <<options, fs, walk, stream, target, forwardError, ssrCalls, sendCalls, events>>

\* the switch breaks: send(), the listeners are registered, stream.pipe(res)
HandleServe(r, url, method) ==
    /\ pc[r] = "idle"
    /\ Truthy(url)
    /\ LET d == decisionOf(options, fs, url, method)
       IN /\ d.kind = "Serve"
          /\ target' = [target EXCEPT ![r] = d.value]
          /\ stream' = [stream EXCEPT ![r] = send(resolvedPathname(options, d.value))]
    /\ req' = [req EXCEPT ![r] = [url |-> url, method |-> method]]
    /\ sendCalls' = [sendCalls EXCEPT ![r] = @ + 1]
    /\ forwardError' = [forwardError EXCEPT ![r] = FALSE]
    /\ pc' = [pc EXCEPT ![r] = "piped"]
    /\ probeCalls' = [probeCalls EXCEPT ![r] = @ + 1]
    /\ UNCHANGED <<options, fs, walk, res, ssrCalls, events>>

\* one call of the handler
Handle(r, url, method) ==
    \/ HandleNoUrl(r, url, method)
    \/ HandleRedirect(r, url, method)
    \/ HandleServe(r, url, method)

\* a collaborator event can be delivered to request r
CanEmit(r) == pc[r] = "piped" /\ Len(events[r]) < MaxEvents

\* an 'error' listener that ignores forwardError and always writes the 500
OnErrorAlways500(r) ==
    /\ CanEmit(r)
    /\ events' = [events EXCEPT ![r] = Append(@, "error")]
    /\ res' = [res EXCEPT ![r] = [@ EXCEPT !.statusCode = 500,
                                           !.body = "Internal server error",
                                           !.ended = TRUE]]
    /\ UNCHANGED <<options, fs, walk, req, pc, stream, target, forwardError, ssrCalls, sendCalls,
                   probeCalls>>

\* stream.on('error', ...)
OnError(r) ==
    /\ CanEmit(r)
    /\ events' = [events EXCEPT ![r] = Append(@, "error")]
    /\ IF forwardError[r]
       THEN /\ res' = [res EXCEPT ![r] = [@ EXCEPT !.statusCode = 500,
                                                   !.body = "Internal server error",
                                                   !.ended = TRUE]]
            /\ UNCHANGED ssrCalls
       ELSE /\ ssrCalls' = [ssrCalls EXCEPT ![r] = @ + 1]
            /\ UNCHANGED res
    /\ UNCHANGED <<options, fs, walk, req, pc, stream, target, forwardError, sendCalls, probeCalls>>

\* a 'headers' listener that tests the assets prefix without its closing slash
OnHeadersOpenPrefix(r) ==
    /\ CanEmit(r)
    /\ events' = [events EXCEPT ![r] = Append(@, "headers")]
    /\ res' = IF startsWith(stream[r].pathname, "/" \o options.assets)
              THEN [res EXCEPT ![r] = [@ EXCEPT !.cacheControl =
                                          "public, max-age=31536000, immutable"]]
              ELSE res
    /\ UNCHANGED <<options, fs, walk, req, pc, stream, target, forwardError, ssrCalls, sendCalls,
                   probeCalls>>

\* stream.on('headers', ...)
OnHeaders(r) ==
    /\ CanEmit(r)
    /\ events' = [events EXCEPT ![r] = Append(@, "headers")]
    /\ res' = IF startsWith(stream[r].pathname, "/" \o options.assets \o "/")
              THEN [res EXCEPT ![r] = [@ EXCEPT !.cacheControl =
                                          "public, max-age=31536000, immutable"]]
              ELSE res
    /\ UNCHANGED <<options, fs, walk, req, pc, stream, target, forwardError, ssrCalls, sendCalls,
                   probeCalls>>

\* a 'file' listener that leaves forwardError alone
OnFileNoFlag(r) ==
    /\ CanEmit(r)
    /\ events' = [events EXCEPT ![r] = Append(@, "file")]
    /\ UNCHANGED <<options, fs, walk, req, pc, res, stream, target, forwardError, ssrCalls,
                   sendCalls, probeCalls>>

\* a 'file' listener writing a flag shared by all requests
OnFileSharedFlag(r) ==
    /\ CanEmit(r)
    /\ events' = [events EXCEPT ![r] = Append(@, "file")]
    /\ forwardError' = [q \in Reqs |-> TRUE]
    /\ UNCHANGED <<options, fs, walk, req, pc, res, stream, target, ssrCalls, sendCalls, probeCalls>>

\* stream.on('file', ...)
OnFile(r) ==
    /\ CanEmit(r)
    /\ events' = [events EXCEPT ![r] = Append(@, "file")]
    /\ forwardError' = [forwardError EXCEPT ![r] = TRUE]
    /\ UNCHANGED <<options, fs, walk, req, pc, res, stream, target, ssrCalls, sendCalls, probeCalls>>

\* requests are handled one at a time
Next ==
    \E r \in {1} :
        \/ pc[r] = "idle" /\ \E url \in Urls, method \in Methods : Handle(r, url, method)
        \/ OnError(r)
        \/ OnHeaders(r)
        \/ OnFile(r)

Spec == Init /\ [][Next]_vars

(***************************************************************************)
(* Two requests in flight at once                                          *)
(***************************************************************************)
\* number of collaborator events delivered to all requests together
MaxTotalEvents == 4

RECURSIVE TotalEvents(_)
TotalEvents(n) == IF n = 0 THEN 0 ELSE Len(events[n]) + TotalEvents(n - 1)

\* the urls of the concurrent requests
ConcurrentUrls == {"/a", "/_astro/a.js", Undefined}

\* every trailing-slash policy, one assets prefix and one base
InitConcurrent ==
    /\ Init
    /\ options.assets = "_astro"
    /\ options.base = "/"

\* the handler is called for any idle request while others are streaming
NextConcurrent ==
    \E r \in Reqs :
        \/ pc[r] = "idle" /\ \E url \in ConcurrentUrls : Handle(r, url, "GET")
        \/ TotalEvents(MaxReqs) < MaxTotalEvents /\ OnError(r)
        \/ TotalEvents(MaxReqs) < MaxTotalEvents /\ OnHeaders(r)
        \/ TotalEvents(MaxReqs) < MaxTotalEvents /\ OnFile(r)

SpecConcurrent == InitConcurrent /\ [][NextConcurrent]_vars

(***************************************************************************)
(* Handler construction: createStaticHandler calls resolveClientDir        *)
(***************************************************************************)
InitResolve ==
    /\ options = [trailingSlash |-> Undefined, assets |-> "_astro", base |-> "/"]
    /\ fs \in Filesystems
    /\ walk \in {walkStart(server, moduleUrl) : server \in ServerUrls, moduleUrl \in ModuleUrls}
    /\ req = [r \in Reqs |-> NoRequest]
    /\ pc = [r \in Reqs |-> "idle"]
    /\ res = [r \in Reqs |-> FreshResponse]
    /\ stream = [r \in Reqs |-> NoStream]
    /\ target = [r \in Reqs |-> Undefined]
    /\ forwardError = [r \in Reqs |-> FALSE]
    /\ ssrCalls = [r \in Reqs |-> 0]
    /\ sendCalls = [r \in Reqs |-> 0]
    /\ probeCalls = [r \in Reqs |-> 0]
    /\ events = [r \in Reqs |-> <<>>]

\* loop body: serverEntryFolderURL = path.dirname(serverEntryFolderURL)
WalkUp ==
    /\ walk.pc = "walking"
    /\ ~walkTest(walk)
    /\ walk' = [walk EXCEPT !.serverEntryFolderURL = dirname(@)]
    /\ UNCHANGED <<options, fs, req, pc, res, stream, target, forwardError, ssrCalls,
                   sendCalls, probeCalls, events>>

\* loop exit: the folder is used as the root of the server entry
WalkFound ==
    /\ walk.pc = "walking"
    /\ walkTest(walk)
    /\ walk' = [walk EXCEPT !.pc = "done"]
    /\ UNCHANGED <<options, fs, req, pc, res, stream, target, forwardError, ssrCalls,
                   sendCalls, probeCalls, events>>

NextResolve == WalkUp \/ WalkFound

SpecResolve == InitResolve /\ [][NextResolve]_vars

(***************************************************************************)
(* Properties                                                              *)
(***************************************************************************)
\* request r has been handled and carried a url
Handled(r) == pc[r] # "idle" /\ Truthy(req[r].url)

\* the trailing-slash policy in force
Policy == trailingSlashOf(options)

\* an 'error' event was delivered after a 'file' event
FileThenError(h) ==
    \E i \in 1..Len(h) : \E j \in (i + 1)..Len(h) : h[i] = "file" /\ h[j] = "error"

\* number of 'error' events delivered before the first 'file' event
RECURSIVE ErrorsBeforeFile(_)
ErrorsBeforeFile(h) ==
    IF h = <<>> THEN 0
    ELSE IF Head(h) = "file" THEN 0
    ELSE (IF Head(h) = "error" THEN 1 ELSE 0) + ErrorsBeforeFile(Tail(h))

\* C1: for every request and every sequence of collaborator events, the SSR
\* fallback is invoked at most once.
C1_SsrAtMostOnce == \A r \in Reqs : ssrCalls[r] <= 1

\* C2: once 'error' follows 'file' for a request, the response has status 500
\* and the body 'Internal server error', and the SSR fallback has been invoked
\* for no event from the 'file' event on.
C2_ErrorAfterFileIs500 ==
    \A r \in Reqs :
        FileThenError(events[r]) =>
            /\ res[r].statusCode = 500
            /\ res[r].body = "Internal server error"
            /\ ssrCalls[r] = ErrorsBeforeFile(events[r])

C2_Witness ==
    \E r \in Reqs :
        /\ events[r] = <<"file", "error", "error">>
        /\ res[r].statusCode = 500
        /\ ssrCalls[r] = 0

\* C3: for a request that was not redirected, every 'error' delivered before
\* any 'file' event invokes the SSR fallback, and no 500 is written unless an
\* 'error' followed a 'file'.
C3_ErrorBeforeFileFallsBack ==
    \A r \in Reqs :
        sendCalls[r] > 0 =>
            /\ ssrCalls[r] >= ErrorsBeforeFile(events[r])
            /\ (ErrorsBeforeFile(events[r]) > 0 => ssrCalls[r] > 0)
            /\ (~FileThenError(events[r]) => res[r].statusCode # 500)

C3_Witness ==
    \E r \in Reqs :
        /\ Policy = "never"
        /\ events[r] = <<"error">>
        /\ ssrCalls[r] = 1
        /\ res[r].statusCode # 500

\* C4: when the routing decision of a request is a Redirect, the response has
\* status 301 and the Location of the decision and is ended, the collaborator
\* was never invoked, no event was handled and the SSR fallback was not invoked.
C4_RedirectStopsProcessing ==
    \A r \in Reqs :
        (Handled(r) /\ decisionOf(options, fs, req[r].url, req[r].method).kind = "Redirect") =>
            /\ res[r].statusCode = 301
            /\ res[r].location = decisionOf(options, fs, req[r].url, req[r].method).value
            /\ res[r].ended
            /\ res[r].body = Undefined
            /\ sendCalls[r] = 0
            /\ stream[r] = NoStream
            /\ ssrCalls[r] = 0
            /\ events[r] = <<>>

C4_Witness ==
    \E r \in Reqs :
        /\ Handled(r)
        /\ Policy = "always"
        /\ res[r].statusCode = 301
        /\ res[r].location = "/a/"

\* C5: under never, a path that names a directory, ends with '/' and is not
\* '/' gets a 301 whose Location path is the path without its last slash;
\* the path '/' gets no redirect.
C5_NeverStripsSlash ==
    \A r \in Reqs :
        (Handled(r) /\ Policy = "never") =>
            LET P == UrlPath(req[r].url)
            IN /\ (isDirectoryOf(options, fs, req[r].url) /\ endsWith(P, "/") /\ P # "/") =>
                      /\ res[r].statusCode = 301
                      /\ UrlPath(res[r].location) = sliceLast(P)
               /\ P = "/" => (res[r].statusCode # 301 /\ res[r].location = Undefined)

C5_Witness ==
    \E r \in Reqs :
        /\ Policy = "never"
        /\ req[r].url = "/a/a/"
        /\ res[r].statusCode = 301
        /\ res[r].location = "/a/a"

\* C6: under ignore, and when no policy is configured, no request is
\* redirected; the serve target is P + '/index.html' when P names a directory
\* and does not end with '/', and P otherwise.
C6_IgnoreNeverRedirects ==
    \A r \in Reqs :
        (Handled(r) /\ options.trailingSlash \in {Undefined, "ignore"}) =>
            LET P == UrlPath(req[r].url)
            IN /\ res[r].statusCode # 301
               /\ res[r].location = Undefined
               /\ sendCalls[r] = 1
               /\ target[r] = IF isDirectoryOf(options, fs, req[r].url) /\ ~endsWith(P, "/")
                               THEN P \o "/index.html"
                               ELSE P

C6_Witness ==
    \E r \in Reqs :
        /\ options.trailingSlash = Undefined
        /\ req[r].url = "/a"
        /\ target[r] = "/a/index.html"

\* the path ends in a dot followed by lowercase letters only
LowercaseExtension(P) ==
    \E i \in 2..(Len(P) - 1) :
        /\ CharAt(P, i) = "."
        /\ \A j \in (i + 1)..Len(P) : CharAt(P, j) \in LowerCase

\* C7: under always, a path that does not end with '/', has no lowercase
\* dotted extension and is not an action POST gets a 301 to P + '/'; every
\* other path is served unchanged.
C7_AlwaysAddsSlash ==
    \A r \in Reqs :
        (Handled(r) /\ Policy = "always") =>
            LET P == UrlPath(req[r].url)
                exempt == \/ endsWith(P, "/")
                          \/ LowercaseExtension(P)
                          \/ /\ req[r].method = "POST"
                             /\ isActionRegex(removeBase(options.base, P))
            IN IF exempt
               THEN res[r].statusCode # 301 /\ target[r] = P
               ELSE res[r].statusCode = 301 /\ UrlPath(res[r].location) = P \o "/"

\* everything after the first '?' of the url, "" when there is none
RawQuery(url) ==
    IF Positions(url, "?") = {} THEN "" ELSE sliceFrom(url, Min(Positions(url, "?")))

\* the path a redirect under the policy in force leads to
RedirectedPath(P) == IF Policy = "never" THEN sliceLast(P) ELSE P \o "/"

\* C8: the Location of every redirect is the redirected path followed by '?'
\* and the whole raw query string when the url carried one, and the
\* redirected path alone otherwise.
C8_QueryPreserved ==
    \A r \in Reqs :
        (Handled(r) /\ res[r].statusCode = 301) =>
            LET P == UrlPath(req[r].url)
                Q == RawQuery(req[r].url)
            IN res[r].location = IF Q # "" THEN RedirectedPath(P) \o "?" \o Q
                                 ELSE RedirectedPath(P)

\* C9: the Location of a redirect, normalized again against the same file
\* system under the same policy, is not redirected.
C9_RedirectIdempotent ==
    \A r \in Reqs :
        (Handled(r) /\ res[r].statusCode = 301) =>
            \/ ~Truthy(res[r].location)
            \/ decisionOf(options, fs, res[r].location, req[r].method).kind # "Redirect"

\* some segment of the path starts with a dot
HasDotSegment(pathname) ==
    \E i \in 1..(Len(pathname) - 1) : CharAt(pathname, i) = "/" /\ CharAt(pathname, i + 1) = "."

Immutable == "public, max-age=31536000, immutable"

\* the resolved pathname of request r lies under the hashed-assets prefix
UnderAssets(r) ==
    startsWith(resolvedPathname(options, target[r]), "/" \o options.assets \o "/")

\* the event e was delivered to request r
Delivered(r, e) == \E i \in 1..Len(events[r]) : events[r][i] = e

\* C11: a request whose 'headers' event was delivered carries the immutable
\* Cache-Control exactly when its resolved pathname starts with '/<assets>/';
\* the handler sets no Cache-Control for any other pathname, nor any other value.
C11_ImmutableOnlyUnderAssets ==
    \A r \in Reqs :
        sendCalls[r] > 0 =>
            /\ res[r].cacheControl \in {Undefined, Immutable}
            /\ Delivered(r, "headers") => (res[r].cacheControl = Immutable <=> UnderAssets(r))
            /\ ~UnderAssets(r) => res[r].cacheControl = Undefined
            /\ ~Delivered(r, "headers") => res[r].cacheControl = Undefined

C11_Witness ==
    \E r \in Reqs :
        /\ events[r] = <<"file", "headers">>
        /\ stream[r].pathname = "/_astro/a.js"
        /\ res[r].cacheControl = Immutable
        /\ res[r].statusCode # 500

\* C12: when the lstat probe throws, the handler returns and its routing
\* decision is the one of the switch for isDirectory = false; no 500 is written
\* unless an 'error' later follows a 'file'.
C12_ProbeFailureIsNotDirectory ==
    \A r \in Reqs :
        (/\ Handled(r)
         /\ lstatSync(fs, pathJoin(Client, removeBase(options.base, UrlPath(req[r].url))))
                = "throw") =>
            LET d == trailingSlashSwitch(options, req[r].url, req[r].method, FALSE)
            IN /\ pc[r] \in {"returned", "piped"}
               /\ IF d.kind = "Redirect"
                  THEN /\ res[r].statusCode = 301
                       /\ res[r].location = d.value
                       /\ sendCalls[r] = 0
                  ELSE /\ target[r] = d.value
                       /\ sendCalls[r] = 1
                       /\ res[r].statusCode # 301
                       /\ (res[r].statusCode = 500 => FileThenError(events[r]))

C12_Witness ==
    \E r \in Reqs :
        /\ Policy = "never"
        /\ req[r].url = "/A/"
        /\ lstatSync(fs, pathJoin(Client, removeBase(options.base, "/A/"))) = "throw"
        /\ target[r] = "/A/"
        /\ events[r] = <<>>

\* C13: a request without a url invokes the SSR fallback exactly once and
\* returns: no lstat probe, no send() call, no status, header or body written.
C13_NoUrlFallsBack ==
    \A r \in Reqs :
        (pc[r] # "idle" /\ ~Truthy(req[r].url)) =>
            /\ pc[r] = "returned"
            /\ ssrCalls[r] = 1
            /\ probeCalls[r] = 0
            /\ sendCalls[r] = 0
            /\ stream[r] = NoStream
            /\ res[r] = FreshResponse
            /\ events[r] = <<>>

C13_Witness ==
    \E r \in Reqs :
        /\ pc[r] = "returned"
        /\ req[r].url = Undefined
        /\ ssrCalls[r] = 1

\* C14: the upward walk is never stuck: it is never still walking at a path
\* that does not match and that path.dirname maps to itself (there it would
\* have to stop with an error).
C14_WalkTerminates ==
    ~ /\ walk.pc = "walking"
      /\ ~walkTest(walk)
      /\ dirname(walk.serverEntryFolderURL) = walk.serverEntryFolderURL

\* C15: no request both invokes the SSR fallback and gets a 301 or a 500
\* written by the handler.
C15_ExactlyOneOutcome ==
    \A r \in Reqs : ~(ssrCalls[r] > 0 /\ res[r].statusCode \in {301, 500})

\* C16: under never, a request that is not redirected has the serve target
\* that policy ignore chooses for the same path, query and isDirectory.
C16_NeverDelegatesToIgnore ==
    \A r \in Reqs :
        (Handled(r) /\ Policy = "never" /\ res[r].statusCode # 301) =>
            /\ sendCalls[r] = 1
            /\ target[r] =
                  trailingSlashSwitch([options EXCEPT !.trailingSlash = "ignore"],
                                      req[r].url, req[r].method,
                                      isDirectoryOf(options, fs, req[r].url)).value

C16_Witness ==
    \E r \in Reqs :
        /\ Policy = "never"
        /\ req[r].url = "/a"
        /\ isDirectoryOf(options, fs, "/a")
        /\ target[r] = "/a/index.html"

\* C17: when the 'error' listener has just finalized a response with status
\* 500, the response carries no Cache-Control set by the handler.
C17_No500WithImmutable ==
    \A r \in Reqs :
        (/\ events[r] # <<>>
         /\ events[r][Len(events[r])] = "error"
         /\ res[r].statusCode = 500) => res[r].cacheControl = Undefined

\* C18: with requests in flight together, the flag, the fallback count and
\* the 500 of each request are functions of that request's own events, and
\* no step writes the options, the file system view or the client directory walk.
C18_RequestsIsolated ==
    /\ [](\A r \in Reqs :
            sendCalls[r] > 0 =>
                /\ forwardError[r] <=> Delivered(r, "file")
                /\ ssrCalls[r] = ErrorsBeforeFile(events[r])
                /\ res[r].statusCode = 500 <=> FileThenError(events[r]))
    /\ [][options' = options /\ walk' = walk]_vars

C18_Witness ==
    /\ events[1] = <<"file", "error">>
    /\ events[2] = <<"error">>
    /\ res[1].statusCode = 500
    /\ ssrCalls[1] = 0
    /\ res[2].statusCode = 0
    /\ ssrCalls[2] = 1

\* C19: the walk stops at a directory whose name equals the server-folder name.
C19_WalkStopsAtExactName ==
    walk.pc = "done" => basename(walk.serverEntryFolderURL) = walk.serverFolder

\* C20: the pathname handed to the collaborator starts with '/'.
C20_PathnameHasLeadingSlash ==
    \A r \in Reqs : sendCalls[r] > 0 => startsWith(stream[r].pathname, "/")

C20_Witness ==
    \E r \in Reqs :
        /\ target[r] = "/"
        /\ removeBase(options.base, target[r]) = ""
        /\ stream[r].pathname = "/"

====
